---------------------------- MODULE Spec2Model ----------------------------
(***************************************************************************)
(* Model of elan's toolchain lifecycle core (src/elan/toolchain.rs):       *)
(* install / update / remove of one toolchain, and the construction of     *)
(* commands that run a binary of that toolchain.                           *)
(*                                                                         *)
(* The disk is abstracted to what the code observes: the kind of the       *)
(* install path (absent, directory, symlink to a directory, dangling       *)
(* symlink), what has been placed in it, which binaries <install>/bin      *)
(* holds, and whether the update-hash file exists.  External collaborators *)
(* (install::InstallMethod::run, install::uninstall, utils, env_var)       *)
(* are modelled by their interface; each of their outcomes is an input     *)
(* ("oracle") of the operation that calls them.                            *)
(***************************************************************************)
EXTENDS Integers, Sequences, FiniteSets, TLC

VARIABLES
    custom,     \* is_custom(): the raw name does not parse as a descriptor
    windows,    \* cfg!(windows)
    path,       \* kind of the install path on disk
    content,    \* what has been placed under the install path
    bins,       \* binaries that are files in <install>/bin
    hash,       \* the update-hash file exists
    envCount,   \* LEAN_RECURSION_COUNT inherited by this process (Unset: absent)
    depth,      \* number of processes spawned from returned commands so far
    op,         \* the last call: [name, arg]
    pre,        \* the disk as it was when the last call started
    result,     \* what the last call returned
    log,        \* notifications and external calls of the last call, in order
    cmd,        \* the Command the last call returned, or NoCmd
    home,       \* utils::elan_home() succeeds in this process
    fallback,   \* what <elan_dir>/fallback holds
    pc          \* where a call that is run step by step has got to

vars == <<custom, windows, path, content, bins, hash, envCount, depth,
          op, pre, result, log, cmd, home, fallback, pc>>

-----------------------------------------------------------------------------
(* Bounds of the model *)

\* longest installer list handed to install_from_installers
MaxInstallers == 2
\* processes spawned from returned commands along one behaviour
MaxSpawn == 2
\* longest raw toolchain name, in characters
MaxNameLen == 3

-----------------------------------------------------------------------------
(* Program constants *)

\* env_var::LEAN_RECURSION_COUNT_MAX
LEAN_RECURSION_COUNT_MAX == 5

\* the environment variable is absent or does not parse
Unset == -1

-----------------------------------------------------------------------------
(* Values *)

PathKinds == {"absent", "file", "dir", "symlink", "dangling"}
Binaries == {"lean", "leanpkg"}

\* Result<T>: Ok(val), Err(err(arg)), or a failed assert!
Ok(v) == [kind |-> "Ok", val |-> v, arg |-> ""]
Err(e, a) == [kind |-> "Err", val |-> e, arg |-> a]
Panic == [kind |-> "Panic", val |-> "assertion failed", arg |-> ""]
NoResult == [kind |-> "None", val |-> "", arg |-> ""]

\* The disk and the event log, as one value threaded through a call.
Cur == [path |-> path, content |-> content, bins |-> bins, hash |-> hash,
        log |-> <<>>]
Disk(s) == [path |-> s.path, content |-> s.content, bins |-> s.bins,
            hash |-> s.hash]

\* (self.cfg.notify_handler)(Notification::n)
Notify(s, n) == [s EXCEPT !.log = Append(@, n)]
\* an external collaborator is entered
Called(s, f) == [s EXCEPT !.log = Append(@, f)]

Has(l, e) == \E i \in 1..Len(l) : l[i] = e
Count(l, e) == Cardinality({i \in 1..Len(l) : l[i] = e})
Before(l, a, b) == \E i, j \in 1..Len(l) : i < j /\ l[i] = a /\ l[j] = b

-----------------------------------------------------------------------------
(* Naming & path resolution *)

\* The characters of a raw name that matter to a path: a letter, the dot, the
\* two characters the code replaces, and the other separator of windows.
Chars == {"a", ".", ":", "/", "\\"}

\* the names of length at most n
RECURSIVE NamesUpTo(_)
NamesUpTo(n) ==
    IF n = 0 THEN {<<>>}
    ELSE LET shorter == NamesUpTo(n - 1)
         IN  shorter \cup {Append(x, c) : x \in {y \in shorter : Len(y) = n - 1},
                                          c \in Chars}

\* Regex::new(r"[:/]").replace_all(name, "-")
RECURSIVE sane_name(_)
sane_name(name) ==
    IF name = <<>> THEN <<>>
    ELSE <<IF Head(name) \in {":", "/"} THEN "-" ELSE Head(name)>>
         \o sane_name(Tail(name))

\* std::path::is_separator
is_separator(c) == c = "/" \/ (windows /\ c = "\\")

\* the pieces of a relative path between separators, cur being the piece begun
RECURSIVE pieces(_, _)
pieces(name, cur) ==
    LET done == IF cur = <<>> THEN <<>> ELSE <<cur>>
    IN  IF name = <<>> THEN done
        ELSE IF is_separator(Head(name)) THEN done \o pieces(Tail(name), <<>>)
        ELSE pieces(Tail(name), Append(cur, Head(name)))

\* cfg.toolchains_dir.join(sane_name), as the components of the result below
\* (or not below) the toolchains directory: a name that starts with a
\* separator replaces the directory, "." pieces vanish, ".." pieces go up.
join(name) ==
    IF name # <<>> /\ is_separator(Head(name)) THEN <<"RootDir">>
    ELSE LET ps == pieces(name, <<>>)
             kept == SelectSeq(ps, LAMBDA x : x # <<".">>)
         IN  [i \in 1..Len(kept) |->
                 IF kept[i] = <<".", ".">> THEN "ParentDir" ELSE "Normal"]

is_symlink(s) == s.path \in {"symlink", "dangling"}

\* utils::is_directory: fs::metadata follows symlinks, except (toolchain.rs
\* 83-85) that it does not seem to on windows.
is_directory(s) == s.path = "dir" \/ (s.path = "symlink" /\ ~windows)

\* exists() without the windows symlink hack
exists_nohack(s) == is_directory(s)

exists(s) ==
    LET symlink == IF windows THEN is_symlink(s) ELSE FALSE
    IN  is_directory(s) \/ symlink

is_custom == custom

-----------------------------------------------------------------------------
(* External collaborators *)

\* cfg.get_hash_file(name, true): the path of the update-hash file
get_hash_file(s, o) ==
    IF o = "ok" THEN [s |-> Called(s, "get_hash_file"), res |-> Ok("path")]
    ELSE [s |-> Called(s, "get_hash_file"), res |-> Err("CreatingDirectory", "update-hash")]

\* utils::remove_file("update hash", path): deletes the file if it is present
remove_file(s, o) ==
    IF ~s.hash THEN [s |-> Called(s, "remove_file"), res |-> Ok("()")]
    ELSE IF o = "ok"
    THEN [s |-> [Called(s, "remove_file") EXCEPT !.hash = FALSE], res |-> Ok("()")]
    ELSE [s |-> Called(s, "remove_file"), res |-> Err("RemovingFile", "update hash")]

\* install::uninstall(path, notify): removes the install path; a failure may
\* leave the path in place or may come after the path is gone.
UninstallOutcomes == {"ok", "err_kept", "err_gone"}

Gone(s) == [s EXCEPT !.path = "absent", !.content = {}, !.bins = {}]

uninstall(s, o) ==
    LET s1 == Called(s, "uninstall")
    IN  CASE o = "ok"       -> [s |-> Gone(s1), res |-> Ok("()")]
          [] o = "err_gone" -> [s |-> Gone(s1), res |-> Err("RemovingDirectory", "install")]
          [] OTHER          -> [s |-> s1, res |-> Err("RemovingDirectory", "install")]


\* InstallMethod: Copy(src) | Link(src) | Installer(archive) | Dist(.., force)
\* arg names what is installed, gives the binaries it carries in bin/.
CopyM(src) == [tag |-> "Copy", arg |-> "copy", gives |-> src.bins, force |-> FALSE]
LinkM(src) == [tag |-> "Link", arg |-> "link", gives |-> src.bins, force |-> FALSE]
InstallerM(a) == [tag |-> "Installer", arg |-> a.id, gives |-> a.bins, force |-> FALSE]
DistM(force) == [tag |-> "Dist", arg |-> "dist", gives |-> Binaries, force |-> force]

\* Outcomes of InstallMethod::run: it fails, or it succeeds with the upstream
\* distribution changed or the same as the recorded update hash.
RunOutcomes == {"changed", "same", "err"}

\* install_method.run(path, notify) -> Result<bool>: places the files and says
\* whether anything changed (logged as run:changed, run:same or run:err for
\* the caller's sake).  Copy and Link replace the install path, an
\* Installer unpacks into it, Dist skips the work when the update hash matches
\* and records the new hash otherwise.
run(m, s, o) ==
    LET s1 == Called(s, "run")
        changed == Called(s1, "run:changed")
    IN  IF o = "err" THEN [s |-> Called(s1, "run:err"), res |-> Err("Install", m.tag)]
        ELSE CASE m.tag = "Copy" ->
                    [s |-> [changed EXCEPT !.path = "dir", !.content = {m.arg},
                                           !.bins = m.gives],
                     res |-> Ok("true")]
               [] m.tag = "Link" ->
                    [s |-> [changed EXCEPT !.path = "symlink", !.content = {m.arg},
                                           !.bins = m.gives],
                     res |-> Ok("true")]
               [] m.tag = "Installer" ->
                    [s |-> [changed EXCEPT !.path = IF s.path = "symlink" THEN "symlink" ELSE "dir",
                                           !.content = @ \cup {m.arg},
                                           !.bins = @ \cup m.gives],
                     res |-> Ok("true")]
               [] OTHER ->
                    IF s.hash /\ o = "same" /\ ~m.force
                    THEN [s |-> Called(s1, "run:same"), res |-> Ok("false")]
                    ELSE [s |-> [changed EXCEPT !.path = "dir", !.content = {m.arg},
                                                !.bins = m.gives, !.hash = TRUE],
                          res |-> Ok("true")]

-----------------------------------------------------------------------------
(* Lifecycle orchestrator *)

is_valid_install_method(m) ==
    IF m.tag \in {"Copy", "Link", "Installer"} THEN is_custom ELSE ~is_custom

\* update_hash(): None for a custom toolchain, else the hash file's path
update_hash(s, o) ==
    IF is_custom THEN [s |-> s, res |-> Ok("None")]
    ELSE LET g == get_hash_file(s, o)
         IN  IF g.res.kind = "Err" THEN g ELSE [s |-> g.s, res |-> Ok("Some")]

\* Oracles of remove(): outcome of get_hash_file, remove_file and uninstall
RemoveOracles == [hashfile : {"ok", "err"}, rm : {"ok", "err"}, un : UninstallOutcomes]

\* remove() without the "not installed" early return
remove_always(s, o) ==
    LET s1 == Notify(s, "UninstallingToolchain")
        uh == update_hash(s1, o.hashfile)
    IN  IF uh.res.kind = "Err" THEN uh
        ELSE LET rf == IF uh.res.val = "Some" THEN remove_file(uh.s, o.rm)
                       ELSE [s |-> uh.s, res |-> Ok("()")]
             IN  IF rf.res.kind = "Err" THEN rf
                 ELSE LET un == uninstall(rf.s, o.un)
                          s3 == IF ~exists(un.s)
                                THEN Notify(un.s, "UninstalledToolchain")
                                ELSE un.s
                      IN  [s |-> s3, res |-> un.res]

\* remove() that lets a failure of the uninstaller pass as success
remove_swallowing(s, o) ==
    IF exists(s) \/ is_symlink(s)
    THEN LET r == remove_always(s, o)
         IN  IF Has(r.s.log, "uninstall") THEN [s |-> r.s, res |-> Ok("()")] ELSE r
    ELSE [s |-> Notify(s, "ToolchainNotInstalled"), res |-> Ok("()")]

\* remove() that takes a missing update-hash file for an error
remove_hash_required(s, o) ==
    IF exists(s) \/ is_symlink(s)
    THEN IF ~is_custom /\ ~s.hash /\ o.hashfile = "ok"
         THEN [s |-> Called(Called(Notify(s, "UninstallingToolchain"), "get_hash_file"),
                            "remove_file"),
               res |-> Err("RemovingFile", "update hash")]
         ELSE remove_always(s, o)
    ELSE [s |-> Notify(s, "ToolchainNotInstalled"), res |-> Ok("()")]

remove(s, o) ==
    IF exists(s) \/ is_symlink(s)
    THEN LET s1 == Notify(s, "UninstallingToolchain")
             uh == update_hash(s1, o.hashfile)
         IN  IF uh.res.kind = "Err" THEN uh
             ELSE LET rf == IF uh.res.val = "Some" THEN remove_file(uh.s, o.rm)
                            ELSE [s |-> uh.s, res |-> Ok("()")]
                  IN  IF rf.res.kind = "Err" THEN rf
                      ELSE LET un == uninstall(rf.s, o.un)
                               s3 == IF ~exists(un.s)
                                     THEN Notify(un.s, "UninstalledToolchain")
                                     ELSE un.s
                           IN  [s |-> s3, res |-> un.res]
    ELSE [s |-> Notify(s, "ToolchainNotInstalled"), res |-> Ok("()")]

\* the status match with the existed column swapped
status_swapped(updated, existed) ==
    IF ~updated THEN "Unchanged"
    ELSE IF existed THEN "Installed" ELSE "Updated"

\* match (updated, exists)
status(updated, existed) ==
    CASE updated /\ ~existed -> "Installed"
      [] updated /\ existed  -> "Updated"
      [] ~updated /\ existed -> "Unchanged"
      [] OTHER               -> "Unchanged"

\* install() announcing the directory before it says updating or installing
install_directory_first(s, m, o) ==
    IF ~is_valid_install_method(m) THEN [s |-> s, res |-> Panic]
    ELSE LET existed == exists(s)
             s1 == Notify(s, "ToolchainDirectory")
             s2 == IF existed THEN Notify(s1, "UpdatingToolchain")
                   ELSE Notify(s1, "InstallingToolchain")
             r  == run(m, s2, o)
         IN  IF r.res.kind = "Err" THEN r
             ELSE LET updated == r.res.val = "true"
                      s3 == IF ~updated THEN Notify(r.s, "UpdateHashMatches")
                            ELSE Notify(r.s, "InstalledToolchain")
                  IN  [s |-> s3, res |-> Ok(status(updated, existed))]

install(s, m, o) ==
    IF ~is_valid_install_method(m) THEN [s |-> s, res |-> Panic]
    ELSE LET existed == exists(s)
             s1 == IF existed THEN Notify(s, "UpdatingToolchain")
                   ELSE Notify(s, "InstallingToolchain")
             s2 == Notify(s1, "ToolchainDirectory")
             r  == run(m, s2, o)
         IN  IF r.res.kind = "Err" THEN r
             ELSE LET updated == r.res.val = "true"
                      s3 == IF ~updated THEN Notify(r.s, "UpdateHashMatches")
                            ELSE Notify(r.s, "InstalledToolchain")
                  IN  [s |-> s3, res |-> Ok(status(updated, existed))]

\* install_if_not_installed that does not look at exists()
install_if_not_installed_always(s, m, o) ==
    IF ~is_valid_install_method(m) THEN [s |-> s, res |-> Panic]
    ELSE install(Notify(s, "LookingForToolchain"), m, o)

install_if_not_installed(s, m, o) ==
    IF ~is_valid_install_method(m) THEN [s |-> s, res |-> Panic]
    ELSE LET s1 == Notify(s, "LookingForToolchain")
         IN  IF ~exists(s1) THEN install(s1, m, o)
             ELSE [s |-> Notify(s1, "UsingExistingToolchain"), res |-> Ok("Unchanged")]

\* self.desc(): the raw name parsed as a descriptor; fails for a custom name
desc == IF is_custom THEN Err("Dist", "InvalidToolchainName") ELSE Ok("desc")

\* Oracles of the dist installs: get_hash_file, run, telemetry_enabled(),
\* log_telemetry
DistOracles ==
    {o \in [hashfile : {"ok", "err"}, run : RunOutcomes,
            enabled : {"off", "on", "err"}, logged : {"ok", "err"}] :
        o.enabled # "on" => o.logged = "ok"}

install_from_dist_inner(s, force, o) ==
    LET uh == update_hash(s, o.hashfile)
    IN  IF uh.res.kind = "Err" THEN uh
        ELSE IF desc.kind = "Err" THEN [s |-> uh.s, res |-> desc]
        ELSE install(uh.s, DistM(force), o.run)

\* the telemetry wrapper letting a logging failure replace the result
install_from_dist_with_telemetry_masking(s, force, o) ==
    LET r == install_from_dist_inner(s, force, o)
        s1 == Called(r.s, "log_telemetry")
    IN  IF o.logged = "ok" THEN [s |-> s1, res |-> r.res]
        ELSE [s |-> Notify(s1, "TelemetryCleanupError"), res |-> Err("Telemetry", "log")]

install_from_dist_with_telemetry(s, force, o) ==
    LET r == install_from_dist_inner(s, force, o)
        s1 == Called(r.s, "log_telemetry")
    IN  IF o.logged = "ok" THEN [s |-> s1, res |-> r.res]
        ELSE [s |-> Notify(s1, "TelemetryCleanupError"), res |-> r.res]

install_from_dist(s, force, o) ==
    CASE o.enabled = "err" -> [s |-> s, res |-> Err("Telemetry", "settings")]
      [] o.enabled = "on"  -> install_from_dist_with_telemetry(s, force, o)
      [] OTHER             -> install_from_dist_inner(s, force, o)

install_from_dist_if_not_installed(s, o) ==
    LET uh == update_hash(s, o.hashfile)
    IN  IF uh.res.kind = "Err" THEN uh
        ELSE IF desc.kind = "Err" THEN [s |-> uh.s, res |-> desc]
        ELSE install_if_not_installed(uh.s, DistM(FALSE), o.run)

\* ensure_custom that lets every toolchain through
ensure_custom_lax == Ok("()")

ensure_custom ==
    IF ~is_custom THEN Err("Dist", "InvalidCustomToolchainName") ELSE Ok("()")


\* Installer inputs: a name is its scheme prefix and its '.'-separated pieces.
Installers ==
    { [id |-> "archive.tar.gz", scheme |-> "none", segs |-> <<"archive", "tar", "gz">>,
       parses |-> FALSE, bins |-> {"lean", "leanpkg"}],
      [id |-> "https://h/remote.tar.gz", scheme |-> "https", segs |-> <<"remote", "tar", "gz">>,
       parses |-> TRUE, bins |-> {"lean", "leanpkg"}],
      [id |-> "archive.zip", scheme |-> "none", segs |-> <<"archive", "zip">>,
       parses |-> FALSE, bins |-> {"lean"}] }

\* the installer lists of length at most n
RECURSIVE ListsUpTo(_)
ListsUpTo(n) ==
    IF n = 0 THEN {<<>>}
    ELSE LET shorter == ListsUpTo(n - 1)
         IN  shorter \cup {Append(l, a) : l \in {x \in shorter : Len(x) = n - 1},
                                          a \in Installers}

InstallerLists == ListsUpTo(MaxInstallers)

\* What may go wrong while one installer is processed: nothing, the download
\* (its temporary file included), or the installer itself.
InstallerOutcomes == {"ok", "dl_err", "run_err"}

\* One call meets at most one failing collaborator: the one used for installer
\* number at (0: none fails).
Faults(n) == {[at |-> 0, kind |-> "ok"]}
             \cup [at : 1..n, kind : InstallerOutcomes \ {"ok"}]
Outcomes(n, f) == [i \in 1..n |-> IF i = f.at THEN f.kind ELSE "ok"]

\* installer_str.rfind('.') and the text after it
extension(a) == IF Len(a.segs) > 1 THEN a.segs[Len(a.segs)] ELSE "(none)"

\* the body of the for loop of install_from_installers, for one installer
install_one(s, a, o) ==
    IF extension(a) # "gz" THEN [s |-> s, res |-> Err("BadInstallerType", extension(a))]
    ELSE LET is_url == a.scheme \in {"file", "http", "https"}
             ro == IF o = "run_err" THEN "err" ELSE "changed"
         IN  IF is_url /\ a.parses
             THEN IF o = "dl_err"
                  THEN [s |-> Called(s, "download_file"), res |-> Err("Download", a.id)]
                  ELSE install(Called(s, "download_file"), InstallerM(a), ro)
             ELSE install(s, InstallerM(a), ro)

\* the loop going on to the next installer after one has failed
RECURSIVE install_each_skipping(_, _, _)
install_each_skipping(s, installers, os) ==
    IF installers = <<>> THEN [s |-> s, res |-> Ok("()")]
    ELSE LET r == install_one(s, Head(installers), Head(os))
             rest == install_each_skipping(r.s, Tail(installers), Tail(os))
         IN  IF r.res.kind # "Ok" THEN [s |-> rest.s, res |-> r.res] ELSE rest

RECURSIVE install_each(_, _, _)
install_each(s, installers, os) ==
    IF installers = <<>> THEN [s |-> s, res |-> Ok("()")]
    ELSE LET r == install_one(s, Head(installers), Head(os))
         IN  IF r.res.kind # "Ok" THEN r
             ELSE install_each(r.s, Tail(installers), Tail(os))

\* install_from_installers that keeps the existing installation
install_from_installers_noremove(s, installers, ro, os) ==
    IF ensure_custom.kind = "Err" THEN [s |-> s, res |-> ensure_custom]
    ELSE install_each(s, installers, os)

install_from_installers(s, installers, ro, os) ==
    IF ensure_custom.kind = "Err" THEN [s |-> s, res |-> ensure_custom]
    ELSE LET rm == remove(s, ro)
         IN  IF rm.res.kind = "Err" THEN rm
             ELSE install_each(rm.s, installers, os)

\* Source directories handed to install_from_dir
Srcs ==
    { [id |-> "srcFull", binDir |-> TRUE, bins |-> {"lean", "leanpkg"}],
      [id |-> "srcNoLean", binDir |-> TRUE, bins |-> {"leanpkg"}],
      [id |-> "srcNoBin", binDir |-> FALSE, bins |-> {}] }

\* o.abs: outcome of utils::to_absolute(src); o.run: outcome of the installer
DirOracles == [abs : {"ok", "err"}, run : RunOutcomes]

\* utils::assert_is_directory(src/bin), utils::assert_is_file(src/bin/lean)
assert_is_directory(src) == IF src.binDir THEN Ok("()") ELSE Err("NotADirectory", "bin")
assert_is_file(src) == IF "lean" \in src.bins THEN Ok("()") ELSE Err("NotAFile", "lean")

\* install_from_dir that does not look for bin/lean in the source
install_from_dir_unchecked(s, src, link, o) ==
    IF ensure_custom.kind = "Err" THEN [s |-> s, res |-> ensure_custom]
    ELSE IF assert_is_directory(src).kind = "Err"
         THEN [s |-> s, res |-> assert_is_directory(src)]
    ELSE IF link /\ o.abs = "err" THEN [s |-> s, res |-> Err("LocatingWorkingDir", "")]
    ELSE LET r == install(s, IF link THEN LinkM(src) ELSE CopyM(src), o.run)
         IN  IF r.res.kind # "Ok" THEN r ELSE [s |-> r.s, res |-> Ok("()")]

install_from_dir(s, src, link, o) ==
    IF ensure_custom.kind = "Err" THEN [s |-> s, res |-> ensure_custom]
    ELSE IF assert_is_directory(src).kind = "Err"
         THEN [s |-> s, res |-> assert_is_directory(src)]
    ELSE IF assert_is_file(src).kind = "Err"
         THEN [s |-> s, res |-> assert_is_file(src)]
    ELSE IF link /\ o.abs = "err" THEN [s |-> s, res |-> Err("LocatingWorkingDir", "")]
    ELSE LET r == install(s, IF link THEN LinkM(src) ELSE CopyM(src), o.run)
         IN  IF r.res.kind # "Ok" THEN r ELSE [s |-> r.s, res |-> Ok("()")]

-----------------------------------------------------------------------------
(* Execution environment builder *)

\* A binary name: its stem and whether it ends in ".exe"
BinaryNames == [base : Binaries, exe : BOOLEAN]

\* binary_str.ends_with(EXE_SUFFIX): EXE_SUFFIX is ".exe" on windows, "" elsewhere
ends_with_exe_suffix(b) == IF windows THEN b.exe ELSE TRUE

with_exe_suffix(b) ==
    IF ends_with_exe_suffix(b) THEN b
    ELSE [b EXCEPT !.exe = TRUE]

\* utils::is_file(<install>/bin/<binary>): bin/ holds <stem><EXE_SUFFIX>
is_bin_file(s, b) == b.base \in s.bins /\ b.exe = windows

\* binary_file(name): <install>/bin/<name><EXE_SUFFIX>; whether it is on disk
binary_file(s, stem) == stem \in s.bins

\* env::var("LEAN_RECURSION_COUNT").ok().and_then(|s| s.parse().ok()).unwrap_or(0)
recursion_count(v) == IF v = Unset THEN 0 ELSE v

\* A Command: the program (dir, name) and what its environment is given:
\* entries prepended to the loader path and to PATH, LEAN_RECURSION_COUNT,
\* ELAN_TOOLCHAIN and ELAN_HOME
NoCmd == [some |-> FALSE, dir |-> "", name |-> [base |-> "", exe |-> FALSE],
          count |-> 0, toolchain |-> "", ldpath |-> <<>>, search |-> <<>>,
          elan_home |-> ""]

\* env_var::prepend_path(name, entries, cmd)
prepend_path(c, var, entries) ==
    IF var = "PATH" THEN [c EXCEPT !.search = entries \o @]
    ELSE [c EXCEPT !.ldpath = entries \o @]

\* set_ldpath: <install>/lib leads the loader path; <elan home>/bin, when the
\* home is known, and on windows <install>/bin lead PATH
set_ldpath(c) ==
    LET path_entries == (IF home THEN <<"elan_home/bin">> ELSE <<>>)
                        \o (IF windows THEN <<"self/bin">> ELSE <<>>)
    IN  prepend_path(prepend_path(c, "LOADER_PATH", <<"self/lib">>),
                     "PATH", path_entries)

\* env_var::inc(name, cmd): the inherited value (0 if absent) plus one
inc(c, inherited) == [c EXCEPT !.count = recursion_count(inherited) + 1]

\* set_env that leaves the counter as the command was built
set_env_noinc(c, inherited) ==
    [set_ldpath(c) EXCEPT !.toolchain = "self", !.elan_home = "cfg.elan_dir"]

\* set_env: set_ldpath; ELAN_HOME = utils::elan_home() when that is known;
\* env_var::inc("LEAN_RECURSION_COUNT", cmd); ELAN_TOOLCHAIN = self.name;
\* ELAN_HOME = cfg.elan_dir
set_env(c, inherited) ==
    LET c1 == set_ldpath(c)
        c2 == IF home THEN [c1 EXCEPT !.elan_home = "elan_home"] ELSE c1
        c3 == inc(c2, inherited)
    IN  [c3 EXCEPT !.toolchain = "self", !.elan_home = "cfg.elan_dir"]

\* the guard one spawn late
recursion_limit_late(n) == n > LEAN_RECURSION_COUNT_MAX

\* recursion_count > env_var::LEAN_RECURSION_COUNT_MAX - 1
recursion_limit_reached(n) == n > LEAN_RECURSION_COUNT_MAX - 1

\* Command::new(path): dir says where the program is looked up
Command(dir, name) == [NoCmd EXCEPT !.some = TRUE, !.dir = dir, !.name = name]

\* create_command without the recursion guard
create_command_noguard(s, binary, inherited) ==
    IF ~exists(s) THEN [res |-> Err("ToolchainNotInstalled", "self"), cmd |-> NoCmd]
    ELSE LET b == with_exe_suffix(binary)
         IN  IF is_bin_file(s, b)
             THEN [res |-> Ok("Command"), cmd |-> set_env(Command("bin", b), inherited)]
             ELSE [res |-> Ok("Command"), cmd |-> set_env(Command("PATH", b), inherited)]

create_command(s, binary, inherited) ==
    IF ~exists(s) THEN [res |-> Err("ToolchainNotInstalled", "self"), cmd |-> NoCmd]
    ELSE LET b == with_exe_suffix(binary)
         IN  IF is_bin_file(s, b)
             THEN [res |-> Ok("Command"), cmd |-> set_env(Command("bin", b), inherited)]
             ELSE IF recursion_limit_reached(recursion_count(inherited))
             THEN [res |-> Err("BinaryNotFound", b.base), cmd |-> NoCmd]
             ELSE [res |-> Ok("Command"), cmd |-> set_env(Command("PATH", b), inherited)]

-----------------------------------------------------------------------------
(* Fallback execution bridge *)

\* <elan_dir>/fallback: the directory is missing, holds no leanpkg.exe, or
\* holds one that is a hard link to bin/leanpkg.exe of this toolchain or of
\* another one
FallbackStates == {"none", "empty", "self", "other"}

\* the primary toolchain handed to create_fallback_command, with its exists()
Primaries == [name : {"primary"}, exists : BOOLEAN]

\* outcomes of fs::create_dir_all, fs::remove_file and fs::hard_link
FallbackOracles == [mkdir : {"ok", "err"}, unlink : {"ok", "err"}, link : {"ok", "err"}]

\* the windows block keeping a leanpkg.exe it finds in the scratch directory
fallback_exe_keeping(s, fb, o) ==
    IF o.mkdir = "err" THEN [fb |-> fb, res |-> Err("Msg", "unable to create dir to hold fallback exe")]
    ELSE IF fb \in {"self", "other"} THEN [fb |-> fb, res |-> Ok("fallback_file")]
    ELSE IF o.link = "err" \/ "leanpkg" \notin s.bins
         THEN [fb |-> "empty", res |-> Err("Msg", "unable to hard link fallback exe")]
    ELSE [fb |-> "self", res |-> Ok("fallback_file")]

\* if cfg!(windows) { .. }: create the scratch directory, unlink an old
\* leanpkg.exe in it, hard-link <install>/bin/leanpkg.exe there
fallback_exe(s, fb, o) ==
    IF o.mkdir = "err" THEN [fb |-> fb, res |-> Err("Msg", "unable to create dir to hold fallback exe")]
    ELSE IF fb \in {"self", "other"} /\ o.unlink = "err"
         THEN [fb |-> fb, res |-> Err("Msg", "unable to unlink old fallback exe")]
    ELSE IF o.link = "err" \/ "leanpkg" \notin s.bins
         THEN [fb |-> "empty", res |-> Err("Msg", "unable to hard link fallback exe")]
    ELSE [fb |-> "self", res |-> Ok("fallback_file")]

\* create_fallback_command that leaves ELAN_TOOLCHAIN as set_env set it
create_fallback_command_unnamed(s, binary, primary, inherited, fb, o) ==
    IF binary.base # "leanpkg" THEN [res |-> Panic, cmd |-> NoCmd, fb |-> fb]
    ELSE IF ~exists(s)
         THEN [res |-> Err("ToolchainNotInstalled", "self"), cmd |-> NoCmd, fb |-> fb]
    ELSE IF ~primary.exists
         THEN [res |-> Err("ToolchainNotInstalled", primary.name), cmd |-> NoCmd, fb |-> fb]
    ELSE LET src_file == [base |-> "leanpkg", exe |-> windows]
             exe == IF windows THEN fallback_exe(s, fb, o)
                    ELSE [fb |-> fb, res |-> Ok("src_file")]
         IN  IF exe.res.kind = "Err" THEN [res |-> exe.res, cmd |-> NoCmd, fb |-> exe.fb]
             ELSE [res |-> Ok("Command"),
                   cmd |-> set_env(Command(IF windows THEN "fallback" ELSE "bin", src_file),
                                   inherited),
                   fb |-> exe.fb]

create_fallback_command(s, binary, primary, inherited, fb, o) ==
    IF binary.base # "leanpkg" THEN [res |-> Panic, cmd |-> NoCmd, fb |-> fb]
    ELSE IF ~exists(s)
         THEN [res |-> Err("ToolchainNotInstalled", "self"), cmd |-> NoCmd, fb |-> fb]
    ELSE IF ~primary.exists
         THEN [res |-> Err("ToolchainNotInstalled", primary.name), cmd |-> NoCmd, fb |-> fb]
    ELSE LET src_file == [base |-> "leanpkg", exe |-> windows]
             exe == IF windows THEN fallback_exe(s, fb, o)
                    ELSE [fb |-> fb, res |-> Ok("src_file")]
         IN  IF exe.res.kind = "Err" THEN [res |-> exe.res, cmd |-> NoCmd, fb |-> exe.fb]
             ELSE [res |-> Ok("Command"),
                   cmd |-> [set_env(Command(IF windows THEN "fallback" ELSE "bin", src_file),
                                    inherited)
                               EXCEPT !.toolchain = primary.name],
                   fb |-> exe.fb]

-----------------------------------------------------------------------------
(* The state machine *)

\* no call is under way.  existed: what exists() said when install looked;
\* atRun: whether the path existed as the installer was started; raced:
\* another instance changed the disk while the call was under way
Idle == [at |-> "idle", existed |-> FALSE, atRun |-> FALSE, raced |-> FALSE]

\* Toolchain::from touches no disk: the toolchain may be of either kind, on
\* either platform family, and the install path may be anything.
Init ==
    /\ custom \in BOOLEAN
    /\ windows \in BOOLEAN
    /\ path \in PathKinds
    /\ content = IF path \in {"dir", "symlink"} THEN {"pre"} ELSE {}
    /\ bins \in IF path \in {"dir", "symlink"} THEN {{}, Binaries} ELSE {{}}
    /\ hash \in IF custom THEN {FALSE} ELSE BOOLEAN
    /\ envCount = Unset
    /\ depth = 0
    /\ op = [name |-> "from", arg |-> ""]
    /\ pre = Disk(Cur)
    /\ result = NoResult
    /\ log = <<>>
    /\ cmd = NoCmd
    /\ home = TRUE
    /\ fallback = "none"
    /\ pc = Idle

\* A call of a lifecycle operation returns: out is [s, res].
Return(name, arg, out) ==
    /\ op' = [name |-> name, arg |-> arg]
    /\ pre' = Disk(Cur)
    /\ path' = out.s.path
    /\ content' = out.s.content
    /\ bins' = out.s.bins
    /\ hash' = out.s.hash
    /\ log' = out.s.log
    /\ result' = out.res
    /\ cmd' = NoCmd
    /\ UNCHANGED <<custom, windows, envCount, depth, home, fallback, pc>>

\* The install methods the private install entry points are called with
Methods ==
    {CopyM(src) : src \in {x \in Srcs : x.id = "srcFull"}}
    \cup {LinkM(src) : src \in {x \in Srcs : x.id = "srcNoLean"}}
    \cup {InstallerM(a) : a \in {x \in Installers : x.id = "archive.tar.gz"}}
    \cup {DistM(force) : force \in BOOLEAN}

Remove ==
    \E o \in RemoveOracles : Return("remove", "", remove(Cur, o))

Install ==
    \E m \in Methods, o \in RunOutcomes :
        Return("install", m, install(Cur, m, o))

InstallIfNotInstalled ==
    \E m \in Methods, o \in RunOutcomes :
        Return("install_if_not_installed", m, install_if_not_installed(Cur, m, o))

InstallFromDist ==
    \E force \in BOOLEAN, o \in DistOracles :
        Return("install_from_dist", force, install_from_dist(Cur, force, o))

InstallFromDistIfNotInstalled ==
    \E o \in {x \in DistOracles : x.enabled = "off"} :
        Return("install_from_dist_if_not_installed", "",
               install_from_dist_if_not_installed(Cur, o))

InstallFromInstallers ==
    \E l \in InstallerLists, ro \in {x \in RemoveOracles : x.hashfile = "ok" /\ x.rm = "ok" /\ x.un # "err_gone"} :
        \E f \in Faults(Len(l)) :
            Return("install_from_installers", l,
                   install_from_installers(Cur, l, ro, Outcomes(Len(l), f)))

InstallFromDir ==
    \E src \in Srcs, link \in BOOLEAN, o \in DirOracles :
        Return("install_from_dir", [src |-> src, link |-> link],
               install_from_dir(Cur, src, link, o))

\* create_command(b) in a process that inherited envCount
CreateCommandOf(b) ==
    LET out == create_command(Cur, b, envCount)
    IN  /\ op' = [name |-> "create_command", arg |-> b]
        /\ pre' = Disk(Cur)
        /\ result' = out.res
        /\ cmd' = out.cmd
        /\ log' = <<>>
        /\ UNCHANGED <<custom, windows, path, content, bins, hash, envCount, depth,
                       home, fallback, pc>>

\* The caller spawns the returned command; when the program is this tool again
\* (a proxy found on the search path) the child inherits the command's
\* environment.
SpawnChild ==
    /\ cmd.some
    /\ envCount' = cmd.count
    /\ depth' = depth + 1
    /\ op' = [name |-> "spawn", arg |-> cmd.name]
    /\ pre' = Disk(Cur)
    /\ result' = NoResult
    /\ log' = <<>>
    /\ cmd' = NoCmd
    /\ UNCHANGED <<custom, windows, path, content, bins, hash, home, fallback, pc>>

Next ==
    \/ Remove
    \/ Install
    \/ InstallIfNotInstalled
    \/ InstallFromDist
    \/ InstallFromDistIfNotInstalled
    \/ InstallFromInstallers
    \/ InstallFromDir

Spec == Init /\ [][Next]_vars

-----------------------------------------------------------------------------
(* Commands: create_command in a process with any inherited counter, on any *)
(* disk, and the processes spawned from the commands it returns.            *)

InitCmd ==
    /\ custom \in BOOLEAN
    /\ windows \in BOOLEAN
    /\ path \in PathKinds
    /\ content = IF path \in {"dir", "symlink"} THEN {"pre"} ELSE {}
    /\ bins \in IF path \in {"dir", "symlink"} THEN SUBSET Binaries ELSE {{}}
    /\ hash = FALSE
    /\ envCount \in Unset..(LEAN_RECURSION_COUNT_MAX + 1)
    /\ depth = 0
    /\ op = [name |-> "from", arg |-> [base |-> "", exe |-> FALSE]]
    /\ pre = Disk(Cur)
    /\ result = NoResult
    /\ log = <<>>
    /\ cmd = NoCmd
    /\ home \in BOOLEAN
    /\ fallback = "none"
    /\ pc = Idle

CreateCommand == \E b \in BinaryNames : CreateCommandOf(b)

Spawn == depth < MaxSpawn /\ SpawnChild

NextCmd == CreateCommand \/ Spawn

SpecCmd == InitCmd /\ [][NextCmd]_vars

-----------------------------------------------------------------------------
(* A chain of re-entrant invocations: every process asks for a binary that  *)
(* is not in <install>/bin, and every returned command is spawned.          *)

\* the process has just started: it has not called create_command yet
Started == op.name \in {"from", "spawn"}

Reenter ==
    /\ Started
    /\ \E b \in BinaryNames :
          /\ ~is_bin_file(Cur, with_exe_suffix(b))
          /\ CreateCommandOf(b)

NextChain == Reenter \/ SpawnChild

\* the chain exists on an installed toolchain that lacks some binary
InitChain ==
    /\ InitCmd
    /\ exists(Cur)
    /\ \E b \in BinaryNames : ~is_bin_file(Cur, with_exe_suffix(b))

SpecChain == InitChain /\ [][NextChain]_vars /\ WF_vars(NextChain)

-----------------------------------------------------------------------------
(* Distribution installs, with the outcome of every collaborator kept in    *)
(* the record of the call.                                                  *)

InstallFromDistTraced ==
    \E force \in BOOLEAN, o \in DistOracles :
        Return("install_from_dist", [force |-> force, o |-> o],
               install_from_dist(Cur, force, o))

RemoveTraced ==
    \E o \in RemoveOracles : Return("remove", o, remove(Cur, o))

NextDist == InstallFromDistTraced \/ RemoveTraced

SpecDist == Init /\ [][NextDist]_vars

-----------------------------------------------------------------------------
(* Installs from installer lists, with the outcome of every collaborator    *)
(* kept in the record of the call.                                          *)

\* the removal that starts install_from_installers meets no failure / at most
\* one failing collaborator
Sound(ro) == ro.hashfile = "ok" /\ ro.rm = "ok" /\ ro.un = "ok"
OneFault(ro) ==
    \/ ro.hashfile = "ok" /\ ro.rm = "ok"
    \/ ro.hashfile = "ok" /\ ro.un = "ok"
    \/ ro.rm = "ok" /\ ro.un = "ok"

\* One call meets at most one failing collaborator: in the removal, or in the
\* loop over the installers after a removal in which none failed.
InstallFromInstallersTraced ==
    \E l \in InstallerLists, ro \in {x \in RemoveOracles : OneFault(x)} :
        \E f \in {x \in Faults(Len(l)) : Sound(ro) \/ x.at = 0} :
            Return("install_from_installers", [l |-> l, f |-> f, ro |-> ro],
                   install_from_installers(Cur, l, ro, Outcomes(Len(l), f)))

NextInstallers == InstallFromInstallersTraced

SpecInstallers == Init /\ [][NextInstallers]_vars

-----------------------------------------------------------------------------
(* Toolchain::from on any raw name *)

InitFrom ==
    /\ custom \in BOOLEAN
    /\ windows \in BOOLEAN
    /\ path = "absent"
    /\ content = {}
    /\ bins = {}
    /\ hash = FALSE
    /\ envCount = Unset
    /\ depth = 0
    /\ op \in [name : {"name"}, arg : NamesUpTo(MaxNameLen)]
    /\ pre = Disk(Cur)
    /\ result = NoResult
    /\ log = <<>>
    /\ cmd = NoCmd
    /\ home = TRUE
    /\ fallback = "none"
    /\ pc = Idle

\* Toolchain::from(cfg, name): val is self.name, arg is self.path
From ==
    /\ op.name = "name"
    /\ op' = [name |-> "from", arg |-> op.arg]
    /\ result' = [kind |-> "Ok", val |-> sane_name(op.arg), arg |-> join(sane_name(op.arg))]
    /\ UNCHANGED <<custom, windows, path, content, bins, hash, envCount, depth,
                   pre, log, cmd, home, fallback, pc>>

NextFrom == From

SpecFrom == InitFrom /\ [][NextFrom]_vars

-----------------------------------------------------------------------------
(* Fallback commands: create_fallback_command and create_command of this    *)
(* toolchain, and fallback commands other toolchains build in between.      *)

InitFallback ==
    /\ custom \in BOOLEAN
    /\ windows \in BOOLEAN
    /\ path \in PathKinds
    /\ content = IF path \in {"dir", "symlink"} THEN {"pre"} ELSE {}
    /\ bins \in IF path \in {"dir", "symlink"} THEN SUBSET Binaries ELSE {{}}
    /\ hash = FALSE
    /\ envCount \in {Unset, 1, LEAN_RECURSION_COUNT_MAX}
    /\ depth = 0
    /\ op = [name |-> "from", arg |-> [base |-> "", exe |-> FALSE]]
    /\ pre = Disk(Cur)
    /\ result = NoResult
    /\ log = <<>>
    /\ cmd = NoCmd
    /\ home \in BOOLEAN
    /\ fallback \in FallbackStates
    /\ pc = Idle

\* was: what the scratch directory held when the call started
CreateFallbackCommand ==
    \E b \in BinaryNames, p \in Primaries, o \in FallbackOracles :
        LET out == create_fallback_command(Cur, b, p, envCount, fallback, o)
        IN  /\ op' = [name |-> "create_fallback_command",
                      arg |-> [binary |-> b, primary |-> p, was |-> fallback]]
            /\ pre' = Disk(Cur)
            /\ result' = out.res
            /\ cmd' = out.cmd
            /\ fallback' = out.fb
            /\ log' = <<>>
            /\ UNCHANGED <<custom, windows, path, content, bins, hash, envCount,
                           depth, home, pc>>

\* Another toolchain's create_fallback_command succeeds: the one scratch file
\* is now a link to that toolchain's leanpkg.exe.
OtherFallback ==
    /\ windows
    /\ fallback' = "other"
    /\ op' = [name |-> "other", arg |-> [base |-> "leanpkg", exe |-> TRUE]]
    /\ pre' = Disk(Cur)
    /\ result' = NoResult
    /\ cmd' = NoCmd
    /\ log' = <<>>
    /\ UNCHANGED <<custom, windows, path, content, bins, hash, envCount, depth,
                   home, pc>>

NextFallback == CreateFallbackCommand \/ OtherFallback \/ CreateCommand

SpecFallback == InitFallback /\ [][NextFallback]_vars

-----------------------------------------------------------------------------
(* Two instances of the tool on one toolchain name.  This instance runs     *)
(* install and install_if_not_installed one disk access at a time; the      *)
(* other instance runs remove() in between.  Nothing takes a lock.          *)

\* install_if_not_installed taking the install branch for an existing path
looking_inverted(s) == IF exists(s) THEN "iini:install" ELSE "iini:using"

\* if !self.exists() { install } else { using existing }
looking(s) == IF ~exists(s) THEN "iini:install" ELSE "iini:using"

\* the disk now, with what the call under way has logged so far
Flight == [Cur EXCEPT !.log = log]

\* install_if_not_installed up to its look at exists()
StartIfNotInstalled ==
    /\ pc.at = "idle"
    /\ \E m \in {x \in Methods : is_valid_install_method(x)} :
          op' = [name |-> "install_if_not_installed", arg |-> m]
    /\ pre' = Disk(Cur)
    /\ log' = <<"LookingForToolchain">>
    /\ pc' = [Idle EXCEPT !.at = looking(Cur)]
    /\ result' = NoResult
    /\ UNCHANGED <<custom, windows, path, content, bins, hash, envCount, depth,
                   cmd, home, fallback>>

\* the else branch: "using existing", Ok(Unchanged)
UseExisting ==
    /\ pc.at = "iini:using"
    /\ log' = Append(log, "UsingExistingToolchain")
    /\ result' = Ok("Unchanged")
    /\ pc' = [pc EXCEPT !.at = "idle"]
    /\ UNCHANGED <<custom, windows, path, content, bins, hash, envCount, depth,
                   op, pre, cmd, home, fallback>>

\* install up to the call of the installer: exists() is read and announced
Looked(s) ==
    Notify(IF exists(s) THEN Notify(s, "UpdatingToolchain")
           ELSE Notify(s, "InstallingToolchain"),
           "ToolchainDirectory")

StartInstall ==
    /\ pc.at = "idle"
    /\ \E m \in {x \in Methods : is_valid_install_method(x)} :
          op' = [name |-> "install", arg |-> m]
    /\ pre' = Disk(Cur)
    /\ log' = Looked(Cur).log
    /\ pc' = [Idle EXCEPT !.at = "install:run", !.existed = exists(Cur)]
    /\ result' = NoResult
    /\ UNCHANGED <<custom, windows, path, content, bins, hash, envCount, depth,
                   cmd, home, fallback>>

\* the same, entered from install_if_not_installed
EnterInstall ==
    /\ pc.at = "iini:install"
    /\ log' = Looked(Flight).log
    /\ pc' = [pc EXCEPT !.at = "install:run", !.existed = exists(Cur)]
    /\ UNCHANGED <<custom, windows, path, content, bins, hash, envCount, depth,
                   op, pre, result, cmd, home, fallback>>

\* the installer runs; install announces the completion and returns
RunInstaller ==
    /\ pc.at = "install:run"
    /\ \E o \in RunOutcomes :
          LET r == run(op.arg, Flight, o)
              updated == r.res.val = "true"
              done == IF r.res.kind = "Err" THEN r.s
                      ELSE IF updated THEN Notify(r.s, "InstalledToolchain")
                      ELSE Notify(r.s, "UpdateHashMatches")
          IN  /\ path' = done.path
              /\ content' = done.content
              /\ bins' = done.bins
              /\ hash' = done.hash
              /\ log' = done.log
              /\ result' = IF r.res.kind = "Err" THEN r.res
                           ELSE Ok(status(updated, pc.existed))
    /\ pc' = [pc EXCEPT !.at = "idle", !.atRun = exists(Cur)]
    /\ UNCHANGED <<custom, windows, envCount, depth, op, pre, cmd, home, fallback>>

\* remove() of the other instance; it is the last call only when this
\* instance has no call under way
OtherRemove ==
    /\ \E o \in RemoveOracles :
          LET r == remove(Cur, o)
          IN  /\ path' = r.s.path
              /\ content' = r.s.content
              /\ bins' = r.s.bins
              /\ hash' = r.s.hash
              /\ IF pc.at = "idle"
                 THEN /\ op' = [name |-> "other_remove", arg |-> o]
                      /\ pre' = Disk(Cur)
                      /\ log' = r.s.log
                      /\ result' = r.res
                      /\ pc' = Idle
                 ELSE /\ pc' = [pc EXCEPT !.raced = TRUE]
                      /\ UNCHANGED <<op, pre, log, result>>
    /\ UNCHANGED <<custom, windows, envCount, depth, cmd, home, fallback>>

NextRace ==
    \/ StartIfNotInstalled
    \/ UseExisting
    \/ StartInstall
    \/ EnterInstall
    \/ RunInstaller
    \/ OtherRemove

SpecRace == Init /\ [][NextRace]_vars


\* what the claims call "the install path exists": exists() held when the
\* last call started
Existed == exists(pre)
DiskUnchanged ==
    path = pre.path /\ content = pre.content /\ bins = pre.bins /\ hash = pre.hash
Returned(kind, val, arg) ==
    result.kind = kind /\ result.val = val /\ result.arg = arg
\* the method is one the toolchain's kind allows
Legal(m) == IF m.tag = "Dist" THEN ~custom ELSE custom
\* the installer list is exactly these names
Given(l, ids) == Len(l) = Len(ids) /\ \A i \in 1..Len(ids) : l[i].id = ids[i]

\* C1: for a custom toolchain with an existing installation,
\* install_from_installers(["archive.zip"]) fails with BadInstallerType("zip")
\* and performs no removal and no installation: the install path and its
\* contents are the same after the call as before it.
C1_BadExtensionTouchesNothing ==
    (op.name = "install_from_installers" /\ custom /\ Existed /\ Given(op.arg, <<"archive.zip">>))
        => /\ Returned("Err", "BadInstallerType", "zip")
           /\ ~Has(log, "uninstall")
           /\ ~Has(log, "run")
           /\ DiskUnchanged

\* C2: whenever the install path exists when install_if_not_installed is
\* entered with a legal method (directly, or through
\* install_from_dist_if_not_installed), the installer is never run and the
\* result is Unchanged.
C2_ExistingIsNeverReinstalled ==
    /\ (op.name = "install_if_not_installed" /\ Legal(op.arg) /\ Existed)
           => (~Has(log, "run") /\ Returned("Ok", "Unchanged", ""))
    /\ (op.name = "install_from_dist_if_not_installed" /\ Existed
        /\ Has(log, "LookingForToolchain"))
           => (~Has(log, "run") /\ Returned("Ok", "Unchanged", ""))

C2_Witness ==
    /\ op.name = "install_if_not_installed"
    /\ Legal(op.arg)
    /\ Existed
    /\ pre.content # {"pre"}
    /\ Returned("Ok", "Unchanged", "")

\* C3: the status of a successful install is decided by (the path existed
\* before, the installer reported a change): absent and changed is Installed,
\* existing and changed is Updated, no change is Unchanged either way.
C3_StatusTable ==
    (op.name = "install" /\ result.kind = "Ok")
        => /\ (~Existed /\ Has(log, "run:changed")) => result.val = "Installed"
           /\ (Existed /\ Has(log, "run:changed")) => result.val = "Updated"
           /\ Has(log, "run:same") => result.val = "Unchanged"
           /\ Has(log, "run:changed") \/ Has(log, "run:same")

\* a second dist install with nothing new upstream, on an existing install
C3_Witness ==
    /\ op.name = "install"
    /\ op.arg.tag = "Dist"
    /\ Existed
    /\ pre.content = {"dist"}
    /\ Has(log, "run:same")
    /\ Returned("Ok", "Unchanged", "")

\* C4: in every code path, Copy/Link/Installer on a non-custom toolchain and
\* Dist on a custom toolchain are rejected (failed assertion or error) before
\* the installer runs, and neither the install path nor the update hash is
\* touched.
IllegalCall ==
    \/ op.name \in {"install", "install_if_not_installed"} /\ ~Legal(op.arg)
    \/ op.name \in {"install_from_dist", "install_from_dist_if_not_installed"} /\ custom
    \/ op.name \in {"install_from_installers", "install_from_dir"} /\ ~custom

C4_IllegalMethodRejected ==
    IllegalCall
        => /\ result.kind \in {"Err", "Panic"}
           /\ ~Has(log, "run")
           /\ ~Has(log, "uninstall")
           /\ ~Has(log, "remove_file")
           /\ DiskUnchanged

C4_Witness ==
    /\ op.name = "install_from_installers"
    /\ ~custom
    /\ Existed
    /\ hash
    /\ Len(op.arg) = 2
    /\ Returned("Err", "Dist", "InvalidCustomToolchainName")

\* C5: remove() on a toolchain whose install path is neither a directory nor
\* a symlink returns success, emits only the "not installed" notification and
\* leaves the disk as it was: the uninstaller is not invoked and the
\* update-hash file is neither computed nor deleted.
C5_RemoveOfNothing ==
    (op.name = "remove" /\ pre.path \in {"absent", "file"})
        => /\ Returned("Ok", "()", "")
           /\ log = <<"ToolchainNotInstalled">>
           /\ DiskUnchanged

\* the update-hash file of a toolchain whose directory is gone is left alone
C5_Witness ==
    /\ op.name = "remove"
    /\ pre.path = "file"
    /\ pre.hash
    /\ hash
    /\ Returned("Ok", "()", "")


\* the name of the binary the last create_command was asked for is a file in
\* <install>/bin: bin/ holds <stem>.exe on windows, where the suffix is added
\* to a name that lacks it, and <stem> elsewhere, where the name is kept
InBin(b) == b.base \in bins /\ (windows \/ ~b.exe)

Inherited == IF envCount = Unset THEN 0 ELSE envCount

\* C6: for an installed toolchain and a binary that is not a file in
\* <install>/bin, create_command fails with BinaryNotFound and returns no
\* command when the inherited counter is at the maximum, and returns a command
\* for the bare binary name when the counter is below the maximum.
C6_GuardAtMaximum ==
    (op.name = "create_command" /\ exists(Cur) /\ ~InBin(op.arg))
        => /\ envCount = LEAN_RECURSION_COUNT_MAX
                => (Returned("Err", "BinaryNotFound", op.arg.base) /\ ~cmd.some)
           /\ envCount < LEAN_RECURSION_COUNT_MAX
                => /\ result.kind = "Ok"
                   /\ cmd.some
                   /\ cmd.dir = "PATH"
                   /\ cmd.name.base = op.arg.base

\* the guard trips in a grandchild whose counter has climbed to the maximum
C6_Witness ==
    /\ op.name = "create_command"
    /\ exists(Cur)
    /\ ~InBin(op.arg)
    /\ depth = 2
    /\ envCount = LEAN_RECURSION_COUNT_MAX
    /\ result.val = "BinaryNotFound"

\* the last spawn below the maximum still gets its command
C6_WitnessBelow ==
    /\ op.name = "create_command"
    /\ exists(Cur)
    /\ ~InBin(op.arg)
    /\ envCount = LEAN_RECURSION_COUNT_MAX - 1
    /\ cmd.some

\* C7: for an installed toolchain and a binary that is a file in
\* <install>/bin, create_command succeeds whatever the inherited counter is,
\* runs <install>/bin/<binary>, and the returned command's environment
\* carries the inherited counter plus one.
C7_PresentBinaryIgnoresCounter ==
    (op.name = "create_command" /\ exists(Cur) /\ InBin(op.arg))
        => /\ result.kind = "Ok"
           /\ cmd.some
           /\ cmd.dir = "bin"
           /\ cmd.name.base = op.arg.base
           /\ cmd.name.exe = windows
           /\ cmd.count = Inherited + 1

C7_Witness ==
    /\ op.name = "create_command"
    /\ exists(Cur)
    /\ InBin(op.arg)
    /\ envCount > LEAN_RECURSION_COUNT_MAX
    /\ depth > 0
    /\ cmd.some

\* C8: in a chain of re-entrant invocations that each ask for a binary absent
\* from <install>/bin, every child sees a strictly larger counter than its
\* parent, at most LEAN_RECURSION_COUNT_MAX processes are spawned, and the
\* chain ends with BinaryNotFound.
C8_ChainIsBounded ==
    /\ [][op'.name = "spawn" => Inherited' > Inherited]_vars
    /\ [](depth <= LEAN_RECURSION_COUNT_MAX)
    /\ <>(result.val = "BinaryNotFound")

\* the longest chain: it starts with no counter and ends in the fifth child
C8_Witness ==
    /\ depth = LEAN_RECURSION_COUNT_MAX
    /\ pre.path # "absent"
    /\ op.name = "create_command"
    /\ result.val = "BinaryNotFound"

\* position of the first e in l (0: none)
First(l, e) ==
    IF Has(l, e) THEN CHOOSE i \in 1..Len(l) : l[i] = e /\ \A j \in 1..(i - 1) : l[j] # e
    ELSE 0

\* C9: install_from_installers on a custom toolchain that already has an
\* installation removes it before the installer of the first archive runs, so
\* that install starts from an absent path ("installing", not "updating").
C9_RemovedBeforeFirstInstall ==
    (op.name = "install_from_installers" /\ custom /\ Existed /\ Has(log, "run"))
        => LET before == SubSeq(log, 1, First(log, "run") - 1)
           IN  /\ Has(before, "uninstall")
               /\ Has(before, "UninstalledToolchain")
               /\ Has(before, "InstallingToolchain")
               /\ ~Has(before, "UpdatingToolchain")

C9_Witness ==
    /\ op.name = "install_from_installers"
    /\ custom
    /\ Existed
    /\ pre.content = {"pre"}
    /\ Given(op.arg, <<"archive.tar.gz">>)
    /\ result.kind = "Ok"
    /\ content = {"archive.tar.gz"}

\* C10: a successful install_from_dir(src, link=false) leaves exists() true
\* and bin/lean on disk; a successful remove() leaves exists() false; a
\* successful install_from_dir(src, link=true) leaves a symlink and exists()
\* true.
C10_DirInstallRoundTrip ==
    /\ (op.name = "install_from_dir" /\ result.kind = "Ok" /\ ~op.arg.link)
           => (exists(Cur) /\ path = "dir" /\ binary_file(Cur, "lean"))
    /\ (op.name = "remove" /\ result.kind = "Ok")
           => ~exists(Cur)
    /\ (op.name = "install_from_dir" /\ result.kind = "Ok" /\ op.arg.link)
           => (exists(Cur) /\ path = "symlink")

\* the last step of the round trip: linked where remove() left nothing
C10_Witness ==
    /\ op.name = "install_from_dir"
    /\ op.arg.link
    /\ result.kind = "Ok"
    /\ pre.path = "absent"
    /\ windows
    /\ path = "symlink"


\* the disk as the last call found it, with nothing logged yet
Pre == [path |-> pre.path, content |-> pre.content, bins |-> pre.bins,
        hash |-> pre.hash, log |-> <<>>]

\* what the last install_from_dist call would have done with telemetry
\* disabled and every other collaborator behaving the same
Disabled == install_from_dist(Pre, op.arg.force, [op.arg.o EXCEPT !.enabled = "off"])

\* C11: with telemetry enabled, install_from_dist returns the status or the
\* error it returns with telemetry disabled and leaves the same install
\* state, whatever log_telemetry does; a logging failure adds only the
\* telemetry-cleanup-error notification.
C11_TelemetryIsTransparent ==
    (op.name = "install_from_dist" /\ op.arg.o.enabled = "on")
        => /\ Returned(Disabled.res.kind, Disabled.res.val, Disabled.res.arg)
           /\ path = Disabled.s.path
           /\ content = Disabled.s.content
           /\ bins = Disabled.s.bins
           /\ hash = Disabled.s.hash
           /\ log = Disabled.s.log \o <<"log_telemetry">>
                    \o (IF op.arg.o.logged = "err" THEN <<"TelemetryCleanupError">>
                        ELSE <<>>)

\* the install fails and so does the logging: the install's error is returned
C11_Witness ==
    /\ op.name = "install_from_dist"
    /\ op.arg.o.enabled = "on"
    /\ op.arg.o.logged = "err"
    /\ Has(log, "run:err")
    /\ Has(log, "TelemetryCleanupError")
    /\ Returned("Err", "Install", "Dist")


\* the last call ran nothing, announced nothing and left the disk as it was
Untouched == log = <<>> /\ DiskUnchanged

\* C13: install_from_dir fails before any mutation when the toolchain is not
\* custom (invalid custom name), when src/bin is not a directory (not a
\* directory), or when src/bin/lean is not a file (not a file): the installer
\* is not invoked and the install path is unchanged.
C13_DirInstallFailsFast ==
    op.name = "install_from_dir"
        => /\ ~custom
                => (Returned("Err", "Dist", "InvalidCustomToolchainName") /\ Untouched)
           /\ (custom /\ ~op.arg.src.binDir)
                => (Returned("Err", "NotADirectory", "bin") /\ Untouched)
           /\ (custom /\ op.arg.src.binDir /\ "lean" \notin op.arg.src.bins)
                => (Returned("Err", "NotAFile", "lean") /\ Untouched)

\* a source with bin/ but no bin/lean, offered to an installed custom toolchain
C13_Witness ==
    /\ op.name = "install_from_dir"
    /\ custom
    /\ Existed
    /\ op.arg.src.id = "srcNoLean"
    /\ Returned("Err", "NotAFile", "lean")
    /\ content = {"pre"}


\* C15: when remove() is called on an existing non-custom toolchain and the
\* uninstaller fails, remove() returns the uninstaller's error, the
\* update-hash file is gone, and "uninstalled" is notified exactly when the
\* install path no longer exists after the attempt.
C15_UninstallFailureSurfaces ==
    (op.name = "remove" /\ ~custom /\ Existed /\ op.arg.hashfile = "ok"
     /\ (pre.hash => op.arg.rm = "ok") /\ op.arg.un \in {"err_kept", "err_gone"})
        => /\ Returned("Err", "RemovingDirectory", "install")
           /\ Before(log, "remove_file", "uninstall")
           /\ ~hash
           /\ Has(log, "UninstalledToolchain") <=> ~exists(Cur)

\* the partial failure: the hash file is deleted, the installation is not
C15_Witness ==
    /\ op.name = "remove"
    /\ ~custom
    /\ Existed
    /\ pre.hash
    /\ ~hash
    /\ result.kind = "Err"
    /\ exists(Cur)
    /\ ~Has(log, "UninstalledToolchain")

Fails(i) ==
    LET a == op.arg.l[i]
    IN  \/ extension(a) # "gz"
        \/ op.arg.f.at = i /\ op.arg.f.kind = "run_err"
        \/ op.arg.f.at = i /\ op.arg.f.kind = "dl_err"
           /\ a.scheme \in {"file", "http", "https"} /\ a.parses

\* the first input that fails (0: none does)
FirstFailure ==
    LET failing == {i \in 1..Len(op.arg.l) : Fails(i)}
    IN  IF failing = {} THEN 0
        ELSE CHOOSE i \in failing : \A j \in failing : i <= j

\* the removal that starts the call does not fail
RemovalSucceeds == (exists(pre) \/ is_symlink(pre)) => op.arg.ro.un = "ok"

\* C17: install_from_installers takes its inputs in order, validating,
\* downloading and installing each before it looks at the next: when input k
\* fails, the prior installation has been removed, inputs 1..k-1 are
\* installed, no later input is touched and the call returns the error.
C17_InstallersAreNotTransactional ==
    (op.name = "install_from_installers" /\ custom /\ RemovalSucceeds
     /\ FirstFailure # 0)
        => LET k == FirstFailure
               a == op.arg.l[k]
           IN  /\ result.kind = "Err"
               /\ extension(a) # "gz" => Returned("Err", "BadInstallerType", extension(a))
               /\ (exists(pre) \/ is_symlink(pre)) => Has(log, "UninstalledToolchain")
               /\ content = {op.arg.l[i].id : i \in 1..(k - 1)}
               /\ Count(log, "run:changed") = k - 1
               /\ Count(log, "run") <= k
               /\ exists(Cur) <=> k > 1

\* the second of two archives is of the wrong type: the old installation is
\* gone and only the first archive is installed
C17_Witness ==
    /\ op.name = "install_from_installers"
    /\ custom
    /\ Existed
    /\ pre.content = {"pre"}
    /\ Given(op.arg.l, <<"archive.tar.gz", "archive.zip">>)
    /\ Returned("Err", "BadInstallerType", "zip")
    /\ content = {"archive.tar.gz"}


\* C19: an install call that passes its assertion emits, in this order, one of
\* "updating" (the path existed) or "installing" (it did not), the "directory"
\* notification, then runs the installer, then emits one completion
\* notification: "hash matches" when the installer reported no change,
\* "installed" when it reported a change; when the installer fails no
\* completion notification is emitted and the error is returned.
C19_NotificationOrder ==
    (op.name = "install" /\ Legal(op.arg))
        => LET first == IF Existed THEN "UpdatingToolchain" ELSE "InstallingToolchain"
               start == <<first, "ToolchainDirectory", "run">>
           IN  \/ /\ log = start \o <<"run:err">>
                  /\ Returned("Err", "Install", op.arg.tag)
               \/ /\ log = start \o <<"run:same", "UpdateHashMatches">>
                  /\ result.kind = "Ok"
               \/ /\ log = start \o <<"run:changed", "InstalledToolchain">>
                  /\ result.kind = "Ok"

\* an update whose installer fails
C19_Witness ==
    /\ op.name = "install"
    /\ Legal(op.arg)
    /\ pre.content = {"copy"}
    /\ log = <<"UpdatingToolchain", "ToolchainDirectory", "run", "run:err">>
    /\ result.kind = "Err"


\* C14: for every raw name, the sanitized name contains neither ':' nor '/',
\* has the length of the raw name with each such character replaced by '-',
\* and is a single path segment: the install path is a direct child of the
\* toolchains directory.
C14_SaneNameIsOneSegment ==
    op.name = "from"
        => /\ Len(result.val) = Len(op.arg)
           /\ \A i \in 1..Len(op.arg) :
                 result.val[i] = IF op.arg[i] \in {":", "/"} THEN "-" ELSE op.arg[i]
           /\ \A i \in 1..Len(result.val) : result.val[i] \notin {":", "/"}
           /\ Len(result.arg) = 1
           /\ result.arg[1] = "Normal"


\* the common environment setup of a command of this toolchain
CommonEnv(c) ==
    /\ c.ldpath = <<"self/lib">>
    /\ c.search = (IF home THEN <<"elan_home/bin">> ELSE <<>>)
                  \o (IF windows THEN <<"self/bin">> ELSE <<>>)
    /\ c.count = Inherited + 1
    /\ c.elan_home = "cfg.elan_dir"

\* C12: the command returned by create_fallback_command(binary, primary) has
\* ELAN_TOOLCHAIN equal to the primary toolchain's name, not self's, while
\* the library path, the search path, the recursion counter and ELAN_HOME are
\* as in a command built by self.create_command.
C12_FallbackNamesPrimary ==
    /\ (op.name = "create_fallback_command" /\ result.kind = "Ok")
           => /\ cmd.some
              /\ cmd.toolchain = op.arg.primary.name
              /\ cmd.toolchain # "self"
              /\ CommonEnv(cmd)
    /\ (op.name = "create_command" /\ result.kind = "Ok")
           => /\ cmd.some
              /\ cmd.toolchain = "self"
              /\ CommonEnv(cmd)

C12_Witness ==
    /\ op.name = "create_fallback_command"
    /\ result.kind = "Ok"
    /\ ~windows
    /\ envCount = LEAN_RECURSION_COUNT_MAX
    /\ cmd.toolchain = "primary"
    /\ cmd.count = LEAN_RECURSION_COUNT_MAX + 1

\* C20: on windows, whenever create_fallback_command returns a command, the
\* scratch executable is a link to self's bin/leanpkg, whatever was there
\* before, and the command runs it; elsewhere the call leaves the scratch
\* directory as it was and the command runs self's bin/leanpkg.
C20_ScratchLinksSelf ==
    /\ (op.name = "create_fallback_command" /\ result.kind = "Ok" /\ windows)
           => (fallback = "self" /\ cmd.dir = "fallback" /\ cmd.name.base = "leanpkg")
    /\ (op.name = "create_fallback_command" /\ result.kind = "Ok" /\ ~windows)
           => (cmd.dir = "bin" /\ cmd.name.base = "leanpkg" /\ ~cmd.name.exe)
    /\ (op.name = "create_fallback_command" /\ ~windows)
           => fallback = op.arg.was

\* a stale link left by another toolchain's call is replaced
C20_Witness ==
    /\ op.name = "create_fallback_command"
    /\ windows
    /\ op.arg.was = "other"
    /\ result.kind = "Ok"
    /\ fallback = "self"

\* this instance's call has just returned
JustReturned ==
    pc.at = "idle" /\ op.name \in {"install", "install_if_not_installed"}

\* "using existing" although nothing is installed as the call returns
UsingNothing ==
    /\ JustReturned
    /\ Has(log, "UsingExistingToolchain")
    /\ Returned("Ok", "Unchanged", "")
    /\ ~exists(Cur)

\* Updated although the installer started on a path that did not exist
UpdatedNothing ==
    /\ JustReturned
    /\ Returned("Ok", "Updated", "")
    /\ ~pc.atRun

\* C18: install and remove take no lock.  The other instance's remove() can
\* run at every point between this instance's look at exists() and its
\* return, and that interleaving (and nothing else) makes
\* install_if_not_installed return Unchanged ("using existing") for an
\* install path that does not exist when it returns, or install report
\* Updated for a path that was absent when the installer ran.
C18_RaceWithRemove ==
    /\ (UsingNothing \/ UpdatedNothing) => pc.raced
    /\ pc.at # "idle" => ENABLED OtherRemove

C18_Witness ==
    /\ UsingNothing
    /\ pre.path = "dir"
    /\ path = "absent"
    /\ pc.raced

C18_WitnessUpdated ==
    /\ UpdatedNothing
    /\ op.name = "install"
    /\ pre.path = "dir"
    /\ pc.raced

=============================================================================
